---- MODULE Spec2Model ----
(***************************************************************************)
(* Model of pipr's line editor (src/lineeditor.rs): EditorState, a vector  *)
(* of lines with a (cursor_line, cursor_col) cursor, driven by             *)
(* apply_event and set_content.                                            *)
(*                                                                         *)
(* A line (a Rust String) is modelled as its UTF-8 byte sequence, so that  *)
(* cursor_col is a byte offset exactly as in the code and "character       *)
(* boundary" is decided from the bytes the way str::is_char_boundary does. *)
(* Characters are Unicode code points.  cursor_line is 0-based as in the   *)
(* code; TLA+ sequences are 1-based, so line i of the code is lines[i+1].  *)
(*                                                                         *)
(* A Rust panic (failed assert!, out-of-range index, String::insert /      *)
(* remove / split_off / slice at a non-boundary offset) aborts the call:   *)
(* status becomes "panic" and no further operation is applied.             *)
(***************************************************************************)
EXTENDS Integers, Sequences, FiniteSets, TLC

VARIABLES
    lines,        \* EditorState.lines, each line as UTF-8 bytes
    cursor_line,  \* EditorState.cursor_line (0-based)
    cursor_col,   \* EditorState.cursor_col (byte offset)
    status,       \* "ok", or "panic" once a call has panicked
    event,        \* history: the last call made
    pre           \* history: the EditorState that call was made on

vars == <<lines, cursor_line, cursor_col, status, event, pre>>

----------------------------------------------------------------------------
(* Bounds of the model *)

\* most bytes the buffer text is allowed to grow to by NewCharacter and
\* NewLine, a line break counting as one byte
MaxText == 5

\* Code points typed as NewCharacter(c): 'a', ' ' (a KillWordBack
\* delimiter), '\n', U+00E4 (2 bytes, 1 column), U+0301 (combining, 2 bytes,
\* 0 columns), U+4E2D (3 bytes, 2 columns).
Chars == {97, 32, 10, 228, 769, 20013}

----------------------------------------------------------------------------
(* Strings as UTF-8 byte sequences *)

\* char::encode_utf8, as used by String::insert(idx, ch)
Utf8(c) ==
    IF c < 128 THEN <<c>>
    ELSE IF c < 2048 THEN <<192 + (c \div 64), 128 + (c % 64)>>
    ELSE IF c < 65536
         THEN <<224 + (c \div 4096), 128 + ((c \div 64) % 64), 128 + (c % 64)>>
         ELSE <<240 + (c \div 262144), 128 + ((c \div 4096) % 64),
                128 + ((c \div 64) % 64), 128 + (c % 64)>>

\* str::is_char_boundary: offset 0 and offset len are boundaries, an offset
\* past the end is not, and an inner offset is one iff the byte there is not
\* a UTF-8 continuation byte (10xxxxxx).
is_char_boundary(s, i) ==
    \/ i = 0
    \/ i = Len(s)
    \/ i < Len(s) /\ ~(s[i + 1] >= 128 /\ s[i + 1] < 192)

\* byte length of the character that starts at boundary i < len (its lead byte)
char_len_at(s, i) ==
    IF s[i + 1] < 128 THEN 1
    ELSE IF s[i + 1] < 224 THEN 2
    ELSE IF s[i + 1] < 240 THEN 3
    ELSE 4

\* String::insert(idx, ch) asserts is_char_boundary(idx)
str_insert_ok(s, idx) == is_char_boundary(s, idx)
str_insert(s, idx, c) == SubSeq(s, 1, idx) \o Utf8(c) \o SubSeq(s, idx + 1, Len(s))

\* String::remove(idx): self[idx..].chars().next() must exist: idx is a
\* boundary and there is a character at idx.
str_remove_ok(s, idx) == idx < Len(s) /\ is_char_boundary(s, idx)
str_remove(s, idx) ==
    SubSeq(s, 1, idx) \o SubSeq(s, idx + char_len_at(s, idx) + 1, Len(s))

\* String::split_off(at) asserts is_char_boundary(at); self keeps [0, at)
split_off_ok(s, at) == is_char_boundary(s, at)
split_off_head(s, at) == SubSeq(s, 1, at)
split_off_tail(s, at) == SubSeq(s, at + 1, Len(s))

\* str::get(a..b) is Some iff a <= b and both are boundaries
get_range_some(s, a, b) == a <= b /\ is_char_boundary(s, a) /\ is_char_boundary(s, b)

\* Vec::insert(index, element) and Vec::remove(index), 0-based index
vec_insert(v, i, x) == SubSeq(v, 1, i) \o <<x>> \o SubSeq(v, i + 1, Len(v))
vec_remove(v, i) == SubSeq(v, 1, i) \o SubSeq(v, i + 2, Len(v))

\* v with element i (0-based) replaced by x
vec_set(v, i, x) == [v EXCEPT ![i + 1] = x]

----------------------------------------------------------------------------
(* EditorState *)

\* An EditorState value; ok = FALSE marks the value a call left behind when
\* it panicked.
St(ls, cl, cc) == [lines |-> ls, cursor_line |-> cl, cursor_col |-> cc, ok |-> TRUE]
Panicked(s) == [s EXCEPT !.ok = FALSE]

\* EditorState::new
new == St(<< <<>> >>, 0, 0)

current_line(s) == s.lines[s.cursor_line + 1]

\* current_line_mut() = x
set_current_line(s, x) == [s EXCEPT !.lines = vec_set(s.lines, s.cursor_line, x)]

\* first statement of set_content: never store zero lines
set_content_lines(new_content) ==
    IF new_content = <<>> THEN << <<>> >> ELSE new_content

\* set_content without the guard against zero lines: the lines are stored,
\* then lines.len() - 1 fails on the empty vector
set_content_unguarded(s, new_content) ==
    IF new_content = <<>> THEN Panicked(St(<<>>, s.cursor_line, s.cursor_col))
    ELSE St(new_content, Len(new_content) - 1, Len(new_content[Len(new_content)]))

\* set_content leaving the cursor at the start of the last line
set_content_col_zero(s, new_content) ==
    LET ls == set_content_lines(new_content)
    IN  St(ls, Len(ls) - 1, 0)

set_content(s, new_content) ==
    LET ls == set_content_lines(new_content)
        cl == Len(ls) - 1
    IN  St(ls, cl, Len(ls[cl + 1]))

\* content_str: lines.join(""), the lines concatenated without a separator
RECURSIVE join_lines(_)
join_lines(ls) == IF ls = <<>> THEN <<>> ELSE Head(ls) \o join_lines(Tail(ls))

content_str(s) == join_lines(s.lines)

content_lines(s) == s.lines

\* the while loop of next_char_index: the first n' >= n with get(n'..) Some.
\* Every call site has n <= len, and len is a boundary, so the scan ends.
RECURSIVE next_char_scan(_, _)
next_char_scan(line, n) ==
    IF is_char_boundary(line, n) THEN n ELSE next_char_scan(line, n + 1)

next_char_index(s) ==
    IF s.cursor_col = Len(current_line(s)) THEN s.cursor_col
    ELSE next_char_scan(current_line(s), s.cursor_col + 1)

\* the while loop of prev_char_index: the first n' <= n with get(n'..) Some
\* (get(0..) always is)
RECURSIVE prev_char_scan(_, _)
prev_char_scan(line, n) ==
    IF is_char_boundary(line, n) THEN n ELSE prev_char_scan(line, n - 1)

prev_char_index(s) ==
    IF s.cursor_col = 0 THEN 0
    ELSE prev_char_scan(current_line(s), s.cursor_col - 1)

\* goto_line always going to the last column of the line
goto_line_col_always_end(cc, len) == len

\* the column goto_line leaves the cursor at on a line of length len
goto_line_col(cc, len) == IF cc >= len THEN len ELSE cc

goto_line(s, line_nr) ==
    IF ~(line_nr < Len(s.lines)) THEN Panicked(s)
    ELSE LET t == [s EXCEPT !.cursor_line = line_nr]
         IN  [t EXCEPT !.cursor_col = goto_line_col(t.cursor_col, Len(current_line(t)))]

\* str::chars: the code point of the character that starts at offset i
char_at(s, i) ==
    IF s[i + 1] < 128 THEN s[i + 1]
    ELSE IF s[i + 1] < 224 THEN (s[i + 1] - 192) * 64 + (s[i + 2] - 128)
    ELSE IF s[i + 1] < 240
         THEN (s[i + 1] - 224) * 4096 + (s[i + 2] - 128) * 64 + (s[i + 3] - 128)
         ELSE (s[i + 1] - 240) * 262144 + (s[i + 2] - 128) * 4096
                + (s[i + 3] - 128) * 64 + (s[i + 4] - 128)

\* unicode_width's column width of a character, as UnicodeWidthStr::width
\* counts it: 0 for control characters and for combining diacritical marks
\* (U+0300..U+036F), 2 for CJK unified ideographs (U+4E00..U+9FFF), 1 for
\* the other characters used here
char_width(c) ==
    IF c < 32 \/ (c >= 127 /\ c < 160) THEN 0
    ELSE IF c >= 768 /\ c <= 879 THEN 0
    ELSE IF c >= 19968 /\ c <= 40959 THEN 2
    ELSE 1

\* UnicodeWidthStr::width of the text s[i..]: the sum over its characters
RECURSIVE str_width_from(_, _)
str_width_from(s, i) ==
    IF i >= Len(s) THEN 0
    ELSE char_width(char_at(s, i)) + str_width_from(s, i + char_len_at(s, i))

\* the slice line[..n] panics unless n is a character boundary within line
str_slice_to_ok(s, n) == n <= Len(s) /\ is_char_boundary(s, n)

\* displayed_cursor_column returns (does not panic)
displayed_cursor_column_ok(s) == str_slice_to_ok(current_line(s), s.cursor_col)

displayed_cursor_column(s) ==
    str_width_from(SubSeq(current_line(s), 1, s.cursor_col), 0)

----------------------------------------------------------------------------
(* apply_event, one operator per match arm *)

ev_NewCharacter(s, c) ==
    IF ~str_insert_ok(current_line(s), s.cursor_col) THEN Panicked(s)
    ELSE LET t == set_current_line(s, str_insert(current_line(s), s.cursor_col, c))
         IN  [t EXCEPT !.cursor_col = next_char_index(t)]

ev_NewLine(s) ==
    IF ~split_off_ok(current_line(s), s.cursor_col) THEN Panicked(s)
    ELSE LET rest_of_line == split_off_tail(current_line(s), s.cursor_col)
             t1 == set_current_line(s, split_off_head(current_line(s), s.cursor_col))
             t2 == [t1 EXCEPT !.lines = vec_insert(t1.lines, s.cursor_line + 1, rest_of_line)]
             t3 == goto_line(t2, s.cursor_line + 1)
         IN  IF ~t3.ok THEN t3 ELSE [t3 EXCEPT !.cursor_col = 0]

ev_Backspace(s) ==
    IF s.cursor_col > 0
    THEN \* delete character
         LET new_cursor == prev_char_index(s)
         IN  IF ~str_remove_ok(current_line(s), new_cursor) THEN Panicked(s)
             ELSE [set_current_line(s, str_remove(current_line(s), new_cursor))
                      EXCEPT !.cursor_col = new_cursor]
    ELSE IF s.cursor_line > 0
    THEN \* backspace at start of line: delete newline
         LET removed_line == s.lines[s.cursor_line + 1]
             t1 == [s EXCEPT !.lines = vec_remove(s.lines, s.cursor_line),
                             !.cursor_line = s.cursor_line - 1]
             t2 == [t1 EXCEPT !.cursor_col = Len(current_line(t1))]
         IN  set_current_line(t2, current_line(t2) \o removed_line)
    ELSE s

\* Delete at the end of a line removing the next line without appending it
ev_Delete_drop_next_line(s) ==
    IF s.cursor_col < Len(current_line(s))
    THEN IF ~str_remove_ok(current_line(s), s.cursor_col) THEN Panicked(s)
         ELSE set_current_line(s, str_remove(current_line(s), s.cursor_col))
    ELSE IF s.cursor_line < Len(s.lines) - 1
    THEN [s EXCEPT !.lines = vec_remove(s.lines, s.cursor_line + 1)]
    ELSE s

ev_Delete(s) ==
    IF s.cursor_col < Len(current_line(s))
    THEN \* delete character
         IF ~str_remove_ok(current_line(s), s.cursor_col) THEN Panicked(s)
         ELSE set_current_line(s, str_remove(current_line(s), s.cursor_col))
    ELSE IF s.cursor_line < Len(s.lines) - 1
    THEN \* delete at end of line: delete newline
         LET removed_line == s.lines[s.cursor_line + 2]
             t1 == [s EXCEPT !.lines = vec_remove(s.lines, s.cursor_line + 1)]
         IN  set_current_line(t1, current_line(t1) \o removed_line)
    ELSE s

\* Clear replacing the lines without moving the cursor
ev_Clear_keep_cursor(s) == [s EXCEPT !.lines = << <<>> >>]

ev_Clear(s) == set_content(s, << <<>> >>)

ev_GoLeft(s) ==
    IF s.cursor_col > 0 THEN [s EXCEPT !.cursor_col = prev_char_index(s)]
    ELSE IF s.cursor_line > 0
    THEN LET t == [s EXCEPT !.cursor_line = s.cursor_line - 1]
         IN  [t EXCEPT !.cursor_col = Len(current_line(t))]
    ELSE s

ev_GoRight(s) ==
    IF s.cursor_col < Len(current_line(s))
    THEN [s EXCEPT !.cursor_col = next_char_index(s)]
    ELSE IF s.cursor_line < Len(s.lines) - 1
    THEN [s EXCEPT !.cursor_line = s.cursor_line + 1, !.cursor_col = 0]
    ELSE s

ev_GoUp(s) ==
    IF s.cursor_line > 0 THEN goto_line(s, s.cursor_line - 1) ELSE s

ev_GoDown(s) ==
    IF s.cursor_line < Len(s.lines) - 1 THEN goto_line(s, s.cursor_line + 1) ELSE s

ev_Home(s) == [s EXCEPT !.cursor_col = 0]

\* End counting characters instead of bytes
ev_End_char_count(s) ==
    [s EXCEPT !.cursor_col =
        Cardinality({i \in 1..Len(current_line(s)) :
                        ~(current_line(s)[i] >= 128 /\ current_line(s)[i] < 192)})]

ev_End(s) == [s EXCEPT !.cursor_col = Len(current_line(s))]

\* " ", "/", "\\", ":", "_", "-" as one-character strings
Delimiters == {<<32>>, <<47>>, <<92>>, <<58>>, <<95>>, <<45>>}

\* the while-let loop of KillWordBack
RECURSIVE kill_word_loop(_)
kill_word_loop(s) ==
    LET line == current_line(s)
        p == prev_char_index(s)
    IN  IF ~get_range_some(line, p, s.cursor_col) THEN s
        ELSE LET c == SubSeq(line, p + 1, s.cursor_col)
                 t == [s EXCEPT !.cursor_col = p]
             IN  IF ~str_remove_ok(line, p) THEN Panicked(t)
                 ELSE LET u == set_current_line(t, str_remove(line, p))
                      IN  IF c \in Delimiters \/ u.cursor_col = 0 THEN u
                          ELSE kill_word_loop(u)

\* KillWordBack without the guard on an empty current line
ev_KillWordBack_unguarded(s) == kill_word_loop(s)

ev_KillWordBack(s) ==
    IF current_line(s) # <<>> THEN kill_word_loop(s) ELSE s

Ev(kind, arg) == [kind |-> kind, arg |-> arg]

apply_event(s, ev) ==
    CASE ev.kind = "NewCharacter" -> ev_NewCharacter(s, ev.arg)
      [] ev.kind = "NewLine"      -> ev_NewLine(s)
      [] ev.kind = "Backspace"    -> ev_Backspace(s)
      [] ev.kind = "Delete"       -> ev_Delete(s)
      [] ev.kind = "Clear"        -> ev_Clear(s)
      [] ev.kind = "GoLeft"       -> ev_GoLeft(s)
      [] ev.kind = "GoRight"      -> ev_GoRight(s)
      [] ev.kind = "GoUp"         -> ev_GoUp(s)
      [] ev.kind = "GoDown"       -> ev_GoDown(s)
      [] ev.kind = "Home"         -> ev_Home(s)
      [] ev.kind = "End"          -> ev_End(s)
      [] ev.kind = "KillWordBack" -> ev_KillWordBack(s)

----------------------------------------------------------------------------
(* CommandEntry (commandlist.rs): a history entry holding the lines *)

CommandEntry_new(ls) == ls
CommandEntry_lines(entry) == entry

content_to_commandentry(s) == CommandEntry_new(s.lines)
\* load_commandentry replacing the lines without moving the cursor
load_commandentry_keep_cursor(s, entry) ==
    [s EXCEPT !.lines = set_content_lines(CommandEntry_lines(entry))]

load_commandentry(s, entry) == set_content(s, CommandEntry_lines(entry))

----------------------------------------------------------------------------
(* The state machine *)

\* the text of a sequence of code points
RECURSIVE Text(_)
Text(cs) == IF cs = <<>> THEN <<>> ELSE Utf8(Head(cs)) \o Text(Tail(cs))

\* Contents handed to set_content: no lines, ["\u{e4}", "a"], ["a a"],
\* ["aa", "a"].
ContentPool ==
    << <<>>,
       <<Text(<<228>>), Text(<<97>>)>>,
       <<Text(<<97, 32, 97>>)>>,
       <<Text(<<97, 97>>), Text(<<97>>)>> >>

\* number of bytes of text in all lines
RECURSIVE total_bytes(_)
total_bytes(ls) == IF ls = <<>> THEN 0 ELSE Len(Head(ls)) + total_bytes(Tail(ls))

\* byte length of the buffer text with one line break between lines
text_len(ls) == total_bytes(ls) + Len(ls) - 1

\* the EditorState held in the variables
self == St(lines, cursor_line, cursor_col)

NoEvent == Ev("new", 0)

Init ==
    /\ lines = new.lines
    /\ cursor_line = new.cursor_line
    /\ cursor_col = new.cursor_col
    /\ status = "ok"
    /\ event = NoEvent
    /\ pre = new

\* a call returned (or panicked) leaving EditorState r
Return(r, ev) ==
    /\ lines' = r.lines
    /\ cursor_line' = r.cursor_line
    /\ cursor_col' = r.cursor_col
    /\ status' = IF r.ok THEN "ok" ELSE "panic"
    /\ event' = ev
    /\ pre' = self

Apply(ev) == Return(apply_event(self, ev), ev)

NewCharacter ==
    \E c \in Chars :
        /\ status = "ok"
        /\ text_len(lines) + Len(Utf8(c)) <= MaxText
        /\ Apply(Ev("NewCharacter", c))

NewLine ==
    /\ status = "ok"
    /\ text_len(lines) + 1 <= MaxText
    /\ Apply(Ev("NewLine", 0))

Backspace == status = "ok" /\ Apply(Ev("Backspace", 0))

Delete == status = "ok" /\ Apply(Ev("Delete", 0))

Clear == status = "ok" /\ Apply(Ev("Clear", 0))

GoLeft == status = "ok" /\ Apply(Ev("GoLeft", 0))

GoRight == status = "ok" /\ Apply(Ev("GoRight", 0))

GoUp == status = "ok" /\ Apply(Ev("GoUp", 0))

GoDown == status = "ok" /\ Apply(Ev("GoDown", 0))

Home == status = "ok" /\ Apply(Ev("Home", 0))

End == status = "ok" /\ Apply(Ev("End", 0))

KillWordBack == status = "ok" /\ Apply(Ev("KillWordBack", 0))

SetContent ==
    \E i \in 1..Len(ContentPool) :
        status = "ok" /\ Return(set_content(self, ContentPool[i]), Ev("set_content", i))

\* history round trip: the entry saved from the buffer is loaded back
LoadCommandEntry ==
    /\ status = "ok"
    /\ Return(load_commandentry(self, content_to_commandentry(self)), Ev("load_commandentry", 0))

Next ==
    \/ NewCharacter
    \/ NewLine
    \/ Backspace
    \/ Delete
    \/ Clear
    \/ GoLeft
    \/ GoRight
    \/ GoUp
    \/ GoDown
    \/ Home
    \/ End
    \/ KillWordBack
    \/ SetContent
    \/ LoadCommandEntry

Spec == Init /\ [][Next]_vars

----------------------------------------------------------------------------
(* Properties.  event and pre record the last call and the state it was    *)
(* made on, so "the call ev made on state pre returned state self" is a    *)
(* state predicate.                                                        *)

\* the last line of a line sequence
last_line(ls) == ls[Len(ls)]

\* the largest character boundary of line strictly below col (col > 0)
BoundaryBelow(line, col) ==
    CHOOSE p \in 0..(col - 1) :
        /\ is_char_boundary(line, p)
        /\ \A q \in (p + 1)..(col - 1) : ~is_char_boundary(line, q)

\* C1: in every reachable state 0 <= cursor_col <= byte length of the current
\* line and cursor_col is a character boundary of the current line.
C1_CursorOnCharBoundary ==
    /\ 0 <= cursor_col
    /\ cursor_col <= Len(lines[cursor_line + 1])
    /\ is_char_boundary(lines[cursor_line + 1], cursor_col)

\* C2: in every reachable state there is at least one line and cursor_line
\* is a valid index into the lines.
C2_LinesNonEmptyCursorLineValid ==
    /\ Len(lines) >= 1
    /\ 0 <= cursor_line
    /\ cursor_line < Len(lines)

\* Backspace at the start of the last line has removed that line
C2_Witness_BackspaceMergedLastLine ==
    /\ event.kind = "Backspace"
    /\ status = "ok"
    /\ pre.cursor_col = 0
    /\ pre.cursor_line > 0
    /\ pre.cursor_line = Len(pre.lines) - 1
    /\ Len(lines) = Len(pre.lines) - 1

\* C3: no event fails: apply_event never panics.
C3_NoEventFails == status = "ok"

\* the events of C4 with the precondition that does not hold, on state pre
C4_PreconditionFails ==
    \/ /\ event.kind = "Backspace"
       /\ pre.cursor_line = 0 /\ pre.cursor_col = 0
    \/ /\ event.kind = "Delete"
       /\ pre.cursor_line = Len(pre.lines) - 1
       /\ pre.cursor_col = Len(current_line(pre))
    \/ /\ event.kind = "GoUp"
       /\ pre.cursor_line = 0
    \/ /\ event.kind = "GoDown"
       /\ pre.cursor_line = Len(pre.lines) - 1
    \/ /\ event.kind = "GoLeft"
       /\ pre.cursor_line = 0 /\ pre.cursor_col = 0
    \/ /\ event.kind = "GoRight"
       /\ pre.cursor_line = Len(pre.lines) - 1
       /\ pre.cursor_col = Len(current_line(pre))
    \/ /\ event.kind = "KillWordBack"
       /\ current_line(pre) = <<>>

\* C4: an event whose precondition does not hold returns and leaves lines,
\* cursor_line and cursor_col as they were.
C4_NoOpWhenPreconditionFails ==
    C4_PreconditionFails =>
        /\ status = "ok"
        /\ lines = pre.lines
        /\ cursor_line = pre.cursor_line
        /\ cursor_col = pre.cursor_col

\* KillWordBack was applied on an empty line of a buffer that has text
C4_Witness_KillWordBackOnEmptyLine ==
    /\ event.kind = "KillWordBack"
    /\ current_line(pre) = <<>>
    /\ total_bytes(pre.lines) > 0

\* C5: Clear yields lines = [""], cursor (0, 0) whatever the state before,
\* and Clear applied to that result yields it again.
C5_ClearYieldsEmptyBuffer ==
    event.kind = "Clear" =>
        /\ status = "ok"
        /\ lines = << <<>> >>
        /\ cursor_line = 0
        /\ cursor_col = 0
        /\ apply_event(self, Ev("Clear", 0)) = self

\* Clear was applied to a buffer of several lines with the cursor off (0, 0)
C5_Witness_ClearOnText ==
    /\ event.kind = "Clear"
    /\ Len(pre.lines) > 1
    /\ pre.cursor_line > 0
    /\ pre.cursor_col > 0

\* C6: set_content(L) makes the lines L, or one empty line when L is empty,
\* and puts the cursor at the end of the last line.
C6_SetContentReplacesLines ==
    event.kind = "set_content" =>
        LET L == ContentPool[event.arg]
        IN  /\ status = "ok"
            /\ lines = (IF L = <<>> THEN << <<>> >> ELSE L)
            /\ cursor_line = Len(lines) - 1
            /\ cursor_col = Len(last_line(lines))

\* set_content got two lines while the cursor was on line 0 before the end
\* of a line longer than the new last line
C6_Witness_SetContentMovesCursor ==
    /\ event.kind = "set_content"
    /\ Len(ContentPool[event.arg]) = 2
    /\ pre.cursor_line = 0
    /\ pre.cursor_col # Len(last_line(lines))
    /\ pre.lines # lines

C8_NewCharacterInserts ==
    event.kind = "NewCharacter" =>
        LET old == current_line(pre)
            col == pre.cursor_col
        IN  /\ status = "ok"
            /\ lines = [pre.lines EXCEPT ![pre.cursor_line + 1] =
                           SubSeq(old, 1, col) \o Utf8(event.arg) \o SubSeq(old, col + 1, Len(old))]
            /\ cursor_col = col + Len(Utf8(event.arg))
            /\ cursor_line = pre.cursor_line

\* C9: NewLine at (l, c) returns, leaves the text before c on line l, puts
\* the text from c on in a new line l + 1, keeps the other lines in order,
\* and moves the cursor to (l + 1, 0).
C9_NewLineSplits ==
    event.kind = "NewLine" =>
        LET l == pre.cursor_line
            old == current_line(pre)
            col == pre.cursor_col
        IN  /\ status = "ok"
            /\ Len(lines) = Len(pre.lines) + 1
            /\ \A i \in 0..(l - 1) : lines[i + 1] = pre.lines[i + 1]
            /\ lines[l + 1] = SubSeq(old, 1, col)
            /\ lines[l + 2] = SubSeq(old, col + 1, Len(old))
            /\ \A i \in (l + 1)..(Len(pre.lines) - 1) : lines[i + 2] = pre.lines[i + 1]
            /\ cursor_line = l + 1
            /\ cursor_col = 0

\* C10: Backspace with cursor_col > 0 removes the one character that ends at
\* cursor_col and moves cursor_col to its start; with cursor_col = 0 on a
\* line l > 0 it joins lines l - 1 and l and moves the cursor to line l - 1
\* at the length line l - 1 had.
C10_BackspaceRemovesCharOrJoins ==
    event.kind = "Backspace" =>
        LET l == pre.cursor_line
            old == current_line(pre)
            col == pre.cursor_col
        IN  /\ col > 0 =>
                LET p == BoundaryBelow(old, col)
                IN  /\ status = "ok"
                    /\ lines = [pre.lines EXCEPT ![l + 1] =
                                   SubSeq(old, 1, p) \o SubSeq(old, col + 1, Len(old))]
                    /\ cursor_line = l
                    /\ cursor_col = p
            /\ (col = 0 /\ l > 0) =>
                /\ status = "ok"
                /\ lines = SubSeq(pre.lines, 1, l - 1)
                             \o << pre.lines[l] \o pre.lines[l + 1] >>
                             \o SubSeq(pre.lines, l + 2, Len(pre.lines))
                /\ cursor_line = l - 1
                /\ cursor_col = Len(pre.lines[l])

\* the smallest character boundary of line strictly above col (col < len)
BoundaryAbove(line, col) ==
    CHOOSE p \in (col + 1)..Len(line) :
        /\ is_char_boundary(line, p)
        /\ \A q \in (col + 1)..(p - 1) : ~is_char_boundary(line, q)

\* C11: Delete with cursor_col below the line length removes the one
\* character that starts at cursor_col; at the end of a line that is not the
\* last it appends the next line to the current one and removes the next
\* line; the cursor and the other lines stay as they were.
C11_DeleteRemovesCharOrJoins ==
    event.kind = "Delete" =>
        LET l == pre.cursor_line
            old == current_line(pre)
            col == pre.cursor_col
        IN  /\ col < Len(old) =>
                /\ status = "ok"
                /\ lines = [pre.lines EXCEPT ![l + 1] =
                               SubSeq(old, 1, col)
                                 \o SubSeq(old, BoundaryAbove(old, col) + 1, Len(old))]
                /\ cursor_line = l
                /\ cursor_col = col
            /\ (col >= Len(old) /\ l < Len(pre.lines) - 1) =>
                /\ status = "ok"
                /\ lines = SubSeq(pre.lines, 1, l)
                             \o << old \o pre.lines[l + 2] >>
                             \o SubSeq(pre.lines, l + 3, Len(pre.lines))
                /\ cursor_line = l
                /\ cursor_col = col

\* the bytes of line from offset a to offset b are exactly one character
OneWholeChar(line, a, b) ==
    /\ a < b
    /\ is_char_boundary(line, a)
    /\ is_char_boundary(line, b)
    /\ \A q \in (a + 1)..(b - 1) : ~is_char_boundary(line, q)

\* C12: GoLeft moves to the largest character boundary below cursor_col, or
\* from column 0 to the end of the previous line; GoRight moves to the
\* smallest character boundary above cursor_col, or from the end of a line
\* to column 0 of the next line; a move within a line passes over exactly
\* one whole character.
C12_GoLeftGoRightStepOneChar ==
    LET l == pre.cursor_line
        old == current_line(pre)
        col == pre.cursor_col
    IN  /\ event.kind = "GoLeft" =>
            /\ status = "ok"
            /\ col > 0 =>
                /\ cursor_line = l
                /\ cursor_col = BoundaryBelow(old, col)
                /\ OneWholeChar(old, cursor_col, col)
            /\ (col = 0 /\ l > 0) =>
                /\ cursor_line = l - 1
                /\ cursor_col = Len(pre.lines[l])
        /\ event.kind = "GoRight" =>
            /\ status = "ok"
            /\ col < Len(old) =>
                /\ cursor_line = l
                /\ cursor_col = BoundaryAbove(old, col)
                /\ OneWholeChar(old, col, cursor_col)
            /\ (col >= Len(old) /\ l < Len(pre.lines) - 1) =>
                /\ cursor_line = l + 1
                /\ cursor_col = 0

\* the smaller of two numbers
Min(a, b) == IF a <= b THEN a ELSE b

\* C13: GoUp from a line above 0 moves the cursor one line up, GoDown from a
\* line that is not the last one line down, and cursor_col becomes the
\* smaller of the old cursor_col and the byte length of the destination line.
C13_GoUpGoDownClampColumn ==
    LET l == pre.cursor_line
        col == pre.cursor_col
    IN  /\ (event.kind = "GoUp" /\ l > 0) =>
            /\ status = "ok"
            /\ cursor_line = l - 1
            /\ cursor_col = Min(col, Len(pre.lines[l]))
        /\ (event.kind = "GoDown" /\ l < Len(pre.lines) - 1) =>
            /\ status = "ok"
            /\ cursor_line = l + 1
            /\ cursor_col = Min(col, Len(pre.lines[l + 2]))

\* GoDown from the end of "aa" onto the shorter line "a" clamped the column
C13_Witness_GoDownClamps ==
    /\ event.kind = "GoDown"
    /\ pre.lines = <<Text(<<97, 97>>), Text(<<97>>)>>
    /\ pre.cursor_line = 0
    /\ pre.cursor_col = 2
    /\ cursor_line = 1
    /\ cursor_col = 1

\* the offsets below col at which a delimiter character of line starts
DelimitersBefore(line, col) ==
    {p \in 0..(col - 1) : is_char_boundary(line, p)
                          /\ SubSeq(line, p + 1, BoundaryAbove(line, p)) \in Delimiters
                          /\ BoundaryAbove(line, p) <= col}

\* where a backward word kill from col ends: at the start of the nearest
\* delimiter before col, or at 0 when there is none
KillStart(line, col) ==
    IF DelimitersBefore(line, col) = {} THEN 0
    ELSE CHOOSE p \in DelimitersBefore(line, col) :
             \A q \in DelimitersBefore(line, col) : q <= p

\* C14: KillWordBack on a non-empty line with cursor_col > 0 deletes the
\* text from the start of the nearest delimiter before the cursor (from 0
\* when there is none) up to the cursor, and leaves cursor_col at the start
\* of the deleted text.
C14_KillWordBackStopsAfterDelimiter ==
    (event.kind = "KillWordBack" /\ current_line(pre) # <<>> /\ pre.cursor_col > 0) =>
        LET old == current_line(pre)
            col == pre.cursor_col
            q == KillStart(old, col)
        IN  /\ status = "ok"
            /\ current_line(self) = SubSeq(old, 1, q) \o SubSeq(old, col + 1, Len(old))
            /\ cursor_col = q

\* the sum of the widths of the characters of line that end at or before col
RECURSIVE WidthBefore(_, _, _)
WidthBefore(line, col, p) ==
    IF p >= col \/ BoundaryAbove(line, p) > col THEN 0
    ELSE char_width(char_at(line, p)) + WidthBefore(line, col, BoundaryAbove(line, p))

\* C15: displayed_cursor_column() returns the sum of the display widths of
\* the characters before the cursor on the current line, and NewCharacter(c)
\* increases it by exactly the width of c.
C15_DisplayedColumnIsWidthSum ==
    /\ displayed_cursor_column_ok(self)
    /\ displayed_cursor_column(self) = WidthBefore(current_line(self), cursor_col, 0)
    /\ event.kind = "NewCharacter" =>
        /\ status = "ok"
        /\ displayed_cursor_column_ok(pre)
        /\ displayed_cursor_column(self) = displayed_cursor_column(pre) + char_width(event.arg)

\* C16: no line of the buffer contains a newline character (byte 10).
C16_NoNewlineInLines ==
    \A i \in 1..Len(lines) : \A j \in 1..Len(lines[i]) : lines[i][j] # 10

\* C17: KillWordBack deletes only before the cursor: the text of the current
\* line from the old cursor_col to its end, the other lines, the number of
\* lines and cursor_line stay as they were, and with cursor_col = 0 nothing
\* is deleted.
C17_KillWordBackDeletesOnlyBeforeCursor ==
    event.kind = "KillWordBack" =>
        LET old == current_line(pre)
            col == pre.cursor_col
        IN  /\ status = "ok"
            /\ cursor_line = pre.cursor_line
            /\ Len(lines) = Len(pre.lines)
            /\ \A i \in 1..Len(pre.lines) :
                   i # pre.cursor_line + 1 => lines[i] = pre.lines[i]
            /\ cursor_col <= Len(current_line(self))
            /\ SubSeq(current_line(self), cursor_col + 1, Len(current_line(self)))
                 = SubSeq(old, col + 1, Len(old))
            /\ col = 0 => lines = pre.lines

\* C18: GoLeft, GoRight, GoUp, GoDown, Home and End leave content_lines()
\* as it was; Home and End also leave cursor_line as it was and set
\* cursor_col to 0 and to the length of the current line.
C18_MovementKeepsLines ==
    /\ event.kind \in {"GoLeft", "GoRight", "GoUp", "GoDown", "Home", "End"} =>
        /\ status = "ok"
        /\ content_lines(self) = content_lines(pre)
    /\ event.kind = "Home" =>
        /\ cursor_line = pre.cursor_line
        /\ cursor_col = 0
    /\ event.kind = "End" =>
        /\ cursor_line = pre.cursor_line
        /\ cursor_col = Len(current_line(pre))

\* End was applied before the end of a line that holds a multi-byte
\* character, in a buffer of several lines
C18_Witness_EndOnMultiByteLine ==
    /\ event.kind = "End"
    /\ Len(pre.lines) > 1
    /\ pre.cursor_col < Len(current_line(pre))
    /\ \E i \in 1..Len(current_line(pre)) : current_line(pre)[i] >= 128

\* the last call split a line or joined two lines
C19_SplitOrMerge ==
    \/ event.kind = "NewLine"
    \/ /\ event.kind = "Backspace"
       /\ pre.cursor_col = 0
       /\ pre.cursor_line > 0
    \/ /\ event.kind = "Delete"
       /\ pre.cursor_col = Len(current_line(pre))
       /\ pre.cursor_line < Len(pre.lines) - 1

\* C19: NewLine, Backspace at column 0 of a line above 0 and Delete at the
\* end of a line that is not the last leave content_str() as it was.
C19_SplitMergeKeepText ==
    C19_SplitOrMerge => content_str(self) = content_str(pre)

\* Delete at the end of a line joined it with a non-empty next line
C19_Witness_DeleteJoinedLines ==
    /\ event.kind = "Delete"
    /\ status = "ok"
    /\ pre.cursor_col = Len(current_line(pre))
    /\ pre.cursor_line < Len(pre.lines) - 1
    /\ pre.lines[pre.cursor_line + 2] # <<>>
    /\ current_line(pre) # <<>>
    /\ Len(lines) = Len(pre.lines) - 1

\* C20: from every state, NewCharacter(c) followed by Backspace, and NewLine
\* followed by Backspace, both return and give back the state they started
\* from (lines, cursor_line and cursor_col).
C20_BackspaceUndoesInsertion ==
    status = "ok" =>
        /\ \A c \in Chars :
               LET t == apply_event(self, Ev("NewCharacter", c))
               IN  t.ok /\ apply_event(t, Ev("Backspace", 0)) = self
        /\ LET t == apply_event(self, Ev("NewLine", 0))
           IN  t.ok /\ apply_event(t, Ev("Backspace", 0)) = self

====
